---- MODULE Spec2Model ----
(***************************************************************************)
(* Execution orchestration of a b7s head node (node/head/execute.go) and   *)
(* the cluster lifecycle of its workers (createRaftCluster,                *)
(* createPBFTCluster, leaveCluster).  One request is followed from         *)
(* processExecute on the head to the return of execute and the disband of  *)
(* the consensus cluster on the workers.                                   *)
(*                                                                         *)
(* Spec is the head and its workers on a network that only carries what    *)
(* they send.  SpecHead, SpecStray and SpecInbound are the head alone, and *)
(* SpecWorker the workers alone, on a network that delivers any message.   *)
(*                                                                         *)
(* Thresholds are percentages: the float64 threshold t of the request is   *)
(* the integer 100*t, and respondRatio < threshold is compared as          *)
(* len(results)*100 < threshold*len(peers).                                *)
(***************************************************************************)
EXTENDS Integers, FiniteSets, Sequences, TLC

\* ------------------------------------------------------------------ bounds
NumWorkers == 2

\* WorkOrderResponse messages the network may put in on its own: into the
\* handler alone, and while a request is executed
MaxInjected == 3

MaxStray == 1

\* messages the network may deliver to the workers on its own
MaxDelivered == 3

\* WaitFor calls on one key of a wait-map, and Set calls on it
NumWaiters == 3

MaxSets == 2

Workers == 1..NumWorkers

\* --------------------------------------------------------------- constants
\* codes.Code
Codes == {"OK", "Error", "Invalid", "Timeout", "NoContent", "PartialContent"}

\* codes a worker reports for an execution
ResultCodes == {"OK", "Error", "Timeout"}

\* req.Config.ConsensusAlgorithm, as the client writes it
ConsensusStrings == {"", "Raft", "pbft"}

\* and strings that name no consensus algorithm
UnknownStrings == {"bogus"}

\* req.Config.Threshold, in percent
Thresholds == {0, 30, 100}

\* req.Config.NodeCount
NodeCounts == {0, 2}

defaultExecutionThreshold == 50

None == "none"

\* req.Config.Threshold in percent, of any sign and size
ThresholdInputs == {-100, -1, 0, 1, 30, 50, 99, 100, 101, 200}

\* the WaitFor calls followed on the key of a wait-map, the values set
Waiters == 1..NumWaiters

WmValues == {"a", "b"}

\* no call of leaveCluster in progress on a worker: wait, the calls
\* blocked in WaitFor; shutdown, the calls inside Shutdown
NoLeave == [wait |-> 0, shutdown |-> 0]

\* a WaitFor call that has not begun
IdleWaiter == [pc |-> "idle", chan |-> None, got |-> None, first |-> None,
               epoch |-> 0]

\* request IDs: the one newRequestID mints for the request that is followed,
\* and the ID of another request
RequestIDs == {"r1", "r2"}

newRequestID == "r1"

\* peer.ID.String()
PeerString(p) == ToString(p)

\* executionResultKey: requestID + "/" + peer.String()
executionResultKey(rid, peer) == rid \o "/" \o PeerString(peer)

\* the keys of the head's wait-map of execution results
Keys == {executionResultKey(rid, p) : rid \in RequestIDs, p \in Workers}

VARIABLES
    hpc,                \* position of the head in processExecute/execute
    req,                \* the request being executed
    ctxCancelled,       \* the caller's context is cancelled
    peers,              \* reportingPeers, the peers selected by the roll call
    deferred,           \* the deferred disbandCluster call is registered
    consensusResponses, \* head wait-map: peer -> code of its FormClusterResponse
    executeResponses,   \* head wait-map: key -> code of the NodeResult set
    formSeen,           \* the formation replies formCluster saw when its wait ended
    consensusAlgo,      \* the consensus type execute works with
    retCode,            \* values returned by execute
    retResults,
    retCluster,
    retErr,
    response,           \* the ExecuteResponse sent to the client
    exitPath,           \* the return statement execute left through
    netForm,            \* FormCluster messages in flight, by destination
    netWork,            \* WorkOrder messages in flight, by destination
    netDisband,         \* DisbandCluster messages in flight, by destination
    netFormResp,        \* FormClusterResponse in flight, by sender
    netWorkResp,        \* WorkOrderResponse in flight, by sender
    sentForm,           \* peers a FormCluster was sent to
    sentWork,           \* peers a WorkOrder was sent to
    sentDisband,        \* peers a DisbandCluster was sent to
    clusters,           \* worker registry: worker -> consensus of the replica of the request
    replica,            \* state of the replica handle created by the worker
    createErr,          \* the worker's create*Cluster returned an error
    wResult,            \* worker wait-map executeResponses holds a result for the request
    lpc,                \* worker -> its calls of leaveCluster in progress
    leaveRet,           \* what the worker's last leaveCluster returned
    cfg,                \* the configuration of the head
    requestID,          \* the request ID minted by processExecute
    rollCallSent,       \* the roll call of the request was published
    responders,         \* peers that answered the roll call before it ended
    rollCallEnded,      \* how the wait of the roll call ended
    setCount,           \* head wait-map: key -> number of Set calls on it
    injected,           \* number of messages the environment has put in
    created,            \* worker -> number of replicas it has created
    leaveCount,         \* worker -> number of leaveCluster calls that returned
    regAfterFirst,      \* worker -> its registry entry when the first returned
    shutdownCalls,      \* worker -> number of Shutdown calls it has made
    execOnStopped,      \* worker -> Execute was invoked on a handle whose
                        \* Shutdown had started
    thresholdUsed,      \* the threshold execute scored the results with
    waitEnded,          \* worker -> how the WaitFor of leaveCluster ended
    regAtReply,         \* worker -> the registry had its replica when the
                        \* worker sent FormClusterResponse{OK}
    wmStored,           \* a wait-map: the value stored under the key
    wmWaiters,          \* a wait-map: the WaitFor calls on the key
    wmSetCount          \* a wait-map: number of Set calls on the key

headVars == <<hpc, req, ctxCancelled, peers, deferred, consensusResponses,
              executeResponses, formSeen, consensusAlgo, retCode, retResults,
              retCluster, retErr, response, exitPath>>
netVars == <<netForm, netWork, netDisband, netFormResp, netWorkResp,
             sentForm, sentWork, sentDisband>>
workerVars == <<clusters, replica, createErr, wResult, lpc, leaveRet>>
headGhost == <<cfg, requestID, rollCallSent, responders, rollCallEnded>>
mapGhost == <<setCount, injected>>
workerGhost == <<created, leaveCount, regAfterFirst, shutdownCalls,
                 execOnStopped>>
auxVars == <<thresholdUsed, waitEnded, regAtReply>>
wmVars == <<wmStored, wmWaiters, wmSetCount>>
vars == <<headVars, netVars, workerVars, headGhost, mapGhost, workerGhost,
          auxVars, wmVars>>

\* ----------------------------------------------------------------- helpers
consensusRequired(c) == c # "none"

determineThreshold_belowOne(t) ==
    IF t > 0 /\ t < 100 THEN t ELSE defaultExecutionThreshold

determineThreshold(t) ==
    IF t > 0 /\ t <= 100 THEN t ELSE defaultExecutionThreshold

\* The entries of a wait-map of results under the keys of a request, by peer.
ResponsesOf(wm, rid) == [p \in Workers |-> wm[executionResultKey(rid, p)]]

\* The ResultMap gathered from a wait-map for a set of peers.
ResultMapOf(wm, ps) ==
    [p \in {q \in ps : wm[q] # None} |-> wm[p]]

EmptyMap == [p \in {} |-> None]

\* strings.ToLower on the strings a request carries
ToLower(s) ==
    CASE s = "Raft" -> "raft"
      [] s = "PBFT" -> "pbft"
      [] OTHER -> s

\* consensus.Parse: the type, or "invalid" when the string names none
parseConsensusAlgorithm(value) ==
    IF value = "" THEN "none"
    ELSE IF ToLower(value) = "raft" THEN "raft"
    ELSE IF ToLower(value) = "pbft" THEN "pbft"
    ELSE "invalid"

\* DefaultConfig: the consensus execute falls back to
DefaultConsensus == "none"

DefaultConfig == [DefaultConsensus |-> DefaultConsensus]

\* Transport: the outcomes of SendToMany(ctx, ps, msg, requireAll).  A send on a
\* finished context reaches nobody; the call fails when nobody was reached, or
\* when requireAll is set and somebody was not.
SendOutcomes(ctxDone, ps, requireAll) ==
    { [delivered |-> d,
       err |-> (d = {}) \/ (requireAll /\ d # ps)] :
         d \in (IF ctxDone THEN {{}} ELSE SUBSET ps) }

\* ------------------------------------------------------- head: pure parts
\* processExecute: the request goes on to execute when req.Valid() returned
\* no error; otherwise the response is sent and processExecute returns.
Proceeds_ignoreValid(valid) == TRUE

Proceeds(valid) == valid

\* executeRollCall: the sets of peers the roll call can select from the
\* peers that answered before its wait ended; none when too few answered.
RollCallSelections(nodeCount, answered) ==
    IF nodeCount >= 1
    THEN {ps \in SUBSET answered : Cardinality(ps) = nodeCount}
    ELSE {ps \in {answered} : ps # {}}

\* execute: the cluster returned is made of the peers the roll call selected.
ClusterOf_nobody(ps) == {}

ClusterOf(ps) == ps

\* execute, phase 1: the code returned when the roll call failed.
RollCallCode_alwaysError(err) == "Error"

RollCallCode(err) ==
    IF err = "roll call timeout" THEN "Timeout" ELSE "Error"

\* execute: the consensus type of the request, the configured default when
\* the string of the request does not parse.
executeConsensus_none(value, default) ==
    IF parseConsensusAlgorithm(value) = "invalid"
    THEN "none"
    ELSE parseConsensusAlgorithm(value)

executeConsensus(value, default) ==
    IF parseConsensusAlgorithm(value) = "invalid"
    THEN default
    ELSE parseConsensusAlgorithm(value)

\* formCluster: the peers whose FormClusterResponse{OK} was seen are the
\* bootstrapped ones; formation fails unless every replica bootstrapped.
formClusterErr(seen, ps) ==
    Cardinality({p \in ps : seen[p] = "OK"}) # Cardinality(ps)

\* execute after the roll call: the cluster is formed when the request
\* needs consensus, the work order is sent at once when it does not.
AfterRollCall_skipForm(required) == "dispatch"

AfterRollCall(required) == IF required THEN "form" ELSE "dispatch"

\* execute, phase 2: what follows the call of formCluster.  ret: execute
\* returns codes.Error here; deferred: the disband is deferred.
AfterFormCluster_ignoreErr(err) ==
    [ret |-> FALSE, deferred |-> TRUE]

AfterFormCluster_noDefer(err) ==
    [ret |-> err, deferred |-> FALSE]

AfterFormCluster(err) ==
    IF err THEN [ret |-> TRUE, deferred |-> FALSE]
           ELSE [ret |-> FALSE, deferred |-> TRUE]

\* execute, PBFT: the codes the loop over the results can leave in retcode
\* (Go ranges over a map in no fixed order, and the loop stops at the first).
PBFTRetcode_alwaysOK(results) ==
    {"OK"}

PBFTRetcode(results) ==
    IF DOMAIN results = {} THEN {"OK"}
    ELSE {results[p] : p \in DOMAIN results}

\* execute, raft or no consensus: the code from the number of results, the
\* number of peers and the threshold in percent.
Retcode_noNoContent(nres, npeers, threshold) ==
    IF nres * 100 < threshold * npeers THEN "PartialContent" ELSE "OK"

Retcode_flipped(nres, npeers, threshold) ==
    IF nres = 0 THEN "NoContent"
    ELSE IF nres * 100 > threshold * npeers THEN "PartialContent"
    ELSE "OK"

Retcode(nres, npeers, threshold) ==
    IF nres = 0 THEN "NoContent"
    ELSE IF nres * 100 < threshold * npeers THEN "PartialContent"
    ELSE "OK"

\* determineOverallCode of the node package: the rule stated for a set of
\* results (one code per responding peer).
determineOverallCode(results) ==
    IF DOMAIN results = {} THEN "NoContent"
    ELSE IF Cardinality(DOMAIN results) = 1
         THEN CHOOSE c \in Codes : \A p \in DOMAIN results : results[p] = c
    ELSE IF \E p \in DOMAIN results : results[p] = "OK" THEN "OK"
    ELSE "Error"

\* processExecute: the ErrorMessage of the response.
ErrorMessage_anyError(err) ==
    IF err = "nil" THEN "" ELSE err

ErrorMessage(err) ==
    IF err \in {"roll call timeout", "not enough nodes"} THEN err ELSE ""

\* disbandCluster: DisbandCluster goes to the replicas on a context of its own.
DisbandOutcomes(ps) == SendOutcomes(FALSE, ps, TRUE)

\* ------------------------------------------------------------------- Init
Requests ==
    [consensus : ConsensusStrings, threshold : Thresholds,
     nodeCount : NodeCounts, valid : BOOLEAN]

\* requests that leave the number of nodes and the threshold unset
PlainRequests == {r \in Requests : r.threshold = 0 /\ r.nodeCount = 0}

\* requests with any consensus string
\* requests without consensus, with any threshold
ThresholdRequests ==
    [consensus : {""}, threshold : ThresholdInputs, nodeCount : {0},
     valid : {TRUE}]

AnyRequests ==
    [consensus : ConsensusStrings \cup UnknownStrings, threshold : Thresholds,
     nodeCount : NodeCounts, valid : BOOLEAN]

NoRequest == [consensus |-> "", threshold |-> 0, nodeCount |-> 0, valid |-> FALSE]

\* the configurations a head may run with
Configs == [DefaultConsensus : {"none", "raft", "pbft"}]

InitCommon ==
    /\ hpc = "idle"
    /\ req = NoRequest
    /\ ctxCancelled = FALSE
    /\ peers = {}
    /\ deferred = FALSE
    /\ consensusResponses = [w \in Workers |-> None]
    /\ executeResponses = [k \in Keys |-> None]
    /\ formSeen = [w \in Workers |-> "pending"]
    /\ retCode = None
    /\ retResults = EmptyMap
    /\ retCluster = {}
    /\ retErr = "nil"
    /\ response = None
    /\ exitPath = None
    /\ netForm = {}
    /\ netWork = {}
    /\ netDisband = {}
    /\ netFormResp = [w \in Workers |-> None]
    /\ netWorkResp = [w \in Workers |-> None]
    /\ sentForm = {}
    /\ sentWork = {}
    /\ sentDisband = {}
    /\ clusters = [w \in Workers |-> None]
    /\ replica = [w \in Workers |-> None]
    /\ createErr = [w \in Workers |-> "no"]
    /\ wResult = [w \in Workers |-> FALSE]
    /\ lpc = [w \in Workers |-> NoLeave]
    /\ leaveRet = [w \in Workers |-> None]
    /\ requestID = None
    /\ rollCallSent = FALSE
    /\ responders = {}
    /\ rollCallEnded = None
    /\ setCount = [k \in Keys |-> 0]
    /\ injected = 0
    /\ created = [w \in Workers |-> 0]
    /\ leaveCount = [w \in Workers |-> 0]
    /\ regAfterFirst = [w \in Workers |-> [entry |-> None, created |-> 0]]
    /\ shutdownCalls = [w \in Workers |-> 0]
    /\ execOnStopped = [w \in Workers |-> FALSE]
    /\ thresholdUsed = None
    /\ waitEnded = [w \in Workers |-> None]
    /\ regAtReply = [w \in Workers |-> None]
    /\ wmStored = None
    /\ wmWaiters = [i \in Waiters |-> IdleWaiter]
    /\ wmSetCount = 0

Init ==
    /\ InitCommon
    /\ consensusAlgo = "none"
    /\ cfg = DefaultConfig

\* ----------------------------------------------------------- head actions
\* A return of execute: the values returned, the deferred disband if it is
\* registered, and the response processExecute then sends to the client.
Return(code, results, cluster, err, path) ==
    /\ hpc' = "done"
    /\ retCode' = code
    /\ retResults' = results
    /\ retCluster' = cluster
    /\ retErr' = err
    /\ exitPath' = path
    /\ response' = [code |-> code, results |-> results, cluster |-> cluster,
                    errorMessage |-> ErrorMessage(err)]
    /\ IF deferred
       THEN \E o \in DisbandOutcomes(peers) :
               /\ sentDisband' = peers
               /\ netDisband' = netDisband \cup o.delivered
       ELSE UNCHANGED <<sentDisband, netDisband>>

\* processExecute up to the roll call of execute: validation, the consensus
\* type of the request.
processExecute(r) ==
    /\ hpc = "idle"
    /\ req' = r
    /\ IF ~Proceeds(r.valid)
       THEN /\ hpc' = "done"
            /\ response' = [code |-> "Invalid", results |-> EmptyMap,
                            cluster |-> {}, errorMessage |-> "invalid"]
            /\ UNCHANGED <<consensusAlgo, requestID, rollCallSent>>
       ELSE /\ hpc' = "rollcall"
            /\ requestID' = newRequestID
            /\ consensusAlgo' =
                  executeConsensus(r.consensus, cfg.DefaultConsensus)
            /\ rollCallSent' = TRUE
            /\ UNCHANGED response
    /\ UNCHANGED <<ctxCancelled, peers, deferred, consensusResponses,
                   executeResponses, formSeen, retCode, retResults, retCluster,
                   retErr, exitPath, netVars, workerVars>>
    /\ UNCHANGED <<cfg, responders, rollCallEnded, mapGhost, workerGhost>>
    /\ UNCHANGED <<auxVars, wmVars>>

\* An Execute request reaches the head.
HeadProcessExecute == \E r \in Requests : processExecute(r)

\* The caller cancels the context of the request.
HeadCancel ==
    /\ hpc \in {"rollcall", "form", "formwait", "dispatch", "gather"}
    /\ ~ctxCancelled
    /\ ctxCancelled' = TRUE
    /\ UNCHANGED <<hpc, req, peers, deferred, consensusResponses,
                   executeResponses, formSeen, consensusAlgo, retCode,
                   retResults, retCluster, retErr, response, exitPath,
                   netVars, workerVars>>
    /\ UNCHANGED <<headGhost, mapGhost, workerGhost>>
    /\ UNCHANGED <<auxVars, wmVars>>

\* executeRollCall returns: the peers that reported, or an error.
HeadRollCall ==
    /\ hpc = "rollcall"
    /\ \/ \E answered \in SUBSET Workers :
            /\ responders' = answered
            /\ \/ \E ps \in RollCallSelections(req.nodeCount, answered) :
                    /\ ~ctxCancelled
                    /\ rollCallEnded' = "selected"
                    /\ peers' = ps
                    /\ hpc' = AfterRollCall(consensusRequired(consensusAlgo))
                    /\ UNCHANGED <<retCode, retResults, retCluster, retErr,
                                   response, exitPath, sentDisband, netDisband>>
               \/ /\ RollCallSelections(req.nodeCount, answered) = {}
                  /\ rollCallEnded' = "deadline"
                  /\ Return(RollCallCode("roll call timeout"), EmptyMap, {},
                            "roll call timeout", "L106")
                  /\ UNCHANGED peers
       \/ \E e \in {"not enough nodes", "roll call"} :
            /\ rollCallEnded' = "failed"
            /\ Return(RollCallCode(e), EmptyMap, {}, e, "L106")
            /\ UNCHANGED <<peers, responders>>
    /\ UNCHANGED <<req, ctxCancelled, deferred, consensusResponses,
                   executeResponses, formSeen, consensusAlgo,
                   netForm, netWork, netFormResp, netWorkResp, sentForm,
                   sentWork, workerVars>>
    /\ UNCHANGED <<cfg, requestID, rollCallSent, mapGhost, workerGhost>>
    /\ UNCHANGED <<auxVars, wmVars>>

\* formCluster has returned (with err or without): execute returns
\* codes.Error, or defers the disband and goes on to phase 3.
FormClusterReturns(err) ==
    LET a == AfterFormCluster(err) IN
    /\ formSeen' = consensusResponses
    /\ IF a.ret
       THEN /\ Return("Error", EmptyMap, {}, "form cluster", "L120")
            /\ UNCHANGED deferred
       ELSE /\ hpc' = "dispatch"
            /\ deferred' = a.deferred
            /\ UNCHANGED <<retCode, retResults, retCluster, retErr, response,
                           exitPath, sentDisband, netDisband>>

\* formCluster sends FormCluster to the replicas, all of them required.
HeadFormSend ==
    /\ hpc = "form"
    /\ \E o \in SendOutcomes(ctxCancelled, peers, TRUE) :
        /\ sentForm' = peers
        /\ netForm' = o.delivered
        /\ IF o.err
           THEN FormClusterReturns(TRUE)
           ELSE /\ hpc' = "formwait"
                /\ UNCHANGED <<formSeen, deferred, retCode, retResults,
                               retCluster, retErr, response, exitPath,
                               sentDisband, netDisband>>
    /\ UNCHANGED <<req, ctxCancelled, peers, consensusResponses,
                   executeResponses, consensusAlgo, netWork, netFormResp,
                   netWorkResp, sentWork, workerVars>>
    /\ UNCHANGED <<headGhost, mapGhost, workerGhost>>
    /\ UNCHANGED <<auxVars, wmVars>>

\* formCluster's wait for the confirmations ends: every replica answered, or
\* the cluster formation timeout (or the caller's cancellation) ended it.
HeadFormWait ==
    /\ hpc = "formwait"
    /\ FormClusterReturns(formClusterErr(consensusResponses, peers))
    /\ UNCHANGED <<req, ctxCancelled, peers, consensusResponses,
                   executeResponses, consensusAlgo, netForm, netWork,
                   netFormResp, netWorkResp, sentForm, sentWork, workerVars>>
    /\ UNCHANGED <<headGhost, mapGhost, workerGhost>>
    /\ UNCHANGED <<auxVars, wmVars>>

\* execute, phase 3: sign the request for PBFT, send the work order.
HeadDispatch ==
    /\ hpc = "dispatch"
    /\ \/ /\ consensusAlgo = "pbft"
          /\ Return("Error", EmptyMap, ClusterOf(peers), "sign", "L144")
          /\ UNCHANGED <<sentWork, netWork>>
       \/ \E o \in SendOutcomes(ctxCancelled, peers, consensusRequired(consensusAlgo)) :
            /\ sentWork' = peers
            /\ netWork' = o.delivered
            /\ IF o.err
               THEN Return("Error", EmptyMap, ClusterOf(peers), "send", "L154")
               ELSE /\ hpc' = "gather"
                    /\ UNCHANGED <<retCode, retResults, retCluster, retErr,
                                   response, exitPath, sentDisband, netDisband>>
    /\ UNCHANGED <<req, ctxCancelled, peers, deferred, consensusResponses,
                   executeResponses, formSeen, consensusAlgo, netForm,
                   netFormResp, netWorkResp, sentForm, workerVars>>
    /\ UNCHANGED <<headGhost, mapGhost, workerGhost>>
    /\ UNCHANGED <<auxVars, wmVars>>

\* gatherExecutionResultsPBFT: the one result agreed on, when a replica
\* reported it before the execution timeout.
gatherExecutionResultsPBFT(wm, ps) ==
    IF \E p \in ps : wm[p] # None
    THEN { [q \in {p} |-> wm[p]] : p \in {x \in ps : wm[x] # None} }
    ELSE {EmptyMap}

\* gatherExecutionResults: the results that arrived from the peers before
\* the execution timeout.
gatherExecutionResults(wm, ps) == ResultMapOf(wm, ps)

\* execute, phase 4: the wait for the results ends, the code is determined.
HeadGather ==
    /\ hpc = "gather"
    /\ IF consensusAlgo = "pbft"
       THEN /\ \E results \in gatherExecutionResultsPBFT(
                                 ResponsesOf(executeResponses, requestID), peers) :
                 \E c \in PBFTRetcode(results) :
                    Return(c, results, ClusterOf(peers), "nil", "L172")
            /\ UNCHANGED thresholdUsed
       ELSE LET results == gatherExecutionResults(
                             ResponsesOf(executeResponses, requestID), peers) IN
            /\ thresholdUsed' = determineThreshold(req.threshold)
            /\ Return(Retcode(Cardinality(DOMAIN results), Cardinality(peers),
                              determineThreshold(req.threshold)),
                      results, ClusterOf(peers), "nil", "L191")
    /\ UNCHANGED <<req, ctxCancelled, peers, deferred, consensusResponses,
                   executeResponses, formSeen, consensusAlgo, netForm, netWork,
                   netFormResp, netWorkResp, sentForm, sentWork, workerVars>>
    /\ UNCHANGED <<headGhost, mapGhost, workerGhost>>
    /\ UNCHANGED <<waitEnded, regAtReply, wmVars>>

\* processFormClusterResponse: the reply of a peer goes to the wait-map.
HeadProcessFormClusterResponse(from) ==
    /\ netFormResp[from] # None
    /\ consensusResponses' = [consensusResponses EXCEPT ![from] = netFormResp[from]]
    /\ netFormResp' = [netFormResp EXCEPT ![from] = None]
    /\ UNCHANGED <<hpc, req, ctxCancelled, peers, deferred, executeResponses,
                   formSeen, consensusAlgo, retCode, retResults, retCluster,
                   retErr, response, exitPath, netForm, netWork, netDisband,
                   netWorkResp, sentForm, sentWork, sentDisband, workerVars>>
    /\ UNCHANGED <<headGhost, mapGhost, workerGhost>>
    /\ UNCHANGED <<auxVars, wmVars>>

\* processWorkOrderResponse: executeResponses.Set(key, res.Result), the key
\* from the request ID the response carries and the peer it came from.
processWorkOrderResponse(from, rid, result) ==
    LET key == executionResultKey(rid, from) IN
    /\ executeResponses' = [executeResponses EXCEPT ![key] = result]
    /\ setCount' = [setCount EXCEPT ![key] = @ + 1]

\* The WorkOrderResponse of a worker reaches the head.
HeadProcessWorkOrderResponse(from) ==
    /\ netWorkResp[from] # None
    /\ processWorkOrderResponse(from, requestID, netWorkResp[from])
    /\ netWorkResp' = [netWorkResp EXCEPT ![from] = None]
    /\ UNCHANGED <<hpc, req, ctxCancelled, peers, deferred, consensusResponses,
                   formSeen, consensusAlgo, retCode, retResults, retCluster,
                   retErr, response, exitPath, netForm, netWork, netDisband,
                   netFormResp, sentForm, sentWork, sentDisband, workerVars>>
    /\ UNCHANGED <<headGhost, injected, workerGhost>>
    /\ UNCHANGED <<auxVars, wmVars>>

\* --------------------------------------------------------- worker actions
\* createRaftCluster / createPBFTCluster after the constructor of the
\* replica returned (err: with an error).  register: clusters.Set is
\* reached; reply: the Send of FormClusterResponse{OK} is reached.
createCluster_replyOnError(err) == [register |-> ~err, reply |-> TRUE]

createCluster_registerOnError(err) == [register |-> TRUE, reply |-> ~err]

createCluster(err) == [register |-> ~err, reply |-> ~err]

\* createRaftCluster / createPBFTCluster on a FormCluster message, up to
\* the registration: create the replica, register it.  The registry is
\* not looked at before the replica is created; its Set keeps the handle
\* it has when the key exists.
WorkerCreateCluster(w) ==
    /\ w \in netForm
    /\ createErr[w] # "registered"
    /\ netForm' = netForm \ {w}
    /\ \E err \in BOOLEAN :
         LET o == createCluster(err) IN
         /\ created' = [created EXCEPT ![w] = IF err THEN @ ELSE @ + 1]
         /\ IF o.register /\ clusters[w] = None
            THEN /\ clusters' = [clusters EXCEPT ![w] = consensusAlgo]
                 /\ replica' = [replica EXCEPT ![w] = "running"]
            ELSE UNCHANGED <<clusters, replica>>
         /\ createErr' = [createErr EXCEPT
                            ![w] = IF o.reply THEN "registered" ELSE "failed"]
    /\ UNCHANGED <<headVars, netWork, netDisband, netFormResp, netWorkResp,
                   sentForm, sentWork, sentDisband, wResult, lpc, leaveRet>>
    /\ UNCHANGED <<headGhost, mapGhost, leaveCount, regAfterFirst,
                   shutdownCalls, execOnStopped>>
    /\ UNCHANGED <<auxVars, wmVars>>

\* create*Cluster after the registration: FormClusterResponse{OK} is sent
\* to the head (the Send may fail).
WorkerFormClusterConfirm(w) ==
    /\ createErr[w] = "registered"
    /\ createErr' = [createErr EXCEPT ![w] = "no"]
    /\ \E sendOK \in BOOLEAN :
         /\ netFormResp' = [netFormResp EXCEPT
                              ![w] = IF sendOK THEN "OK" ELSE @]
         /\ regAtReply' = [regAtReply EXCEPT
                             ![w] = IF ~sendOK THEN @
                                    ELSE IF clusters[w] # None THEN "yes"
                                    ELSE "no"]
    /\ UNCHANGED <<headVars, netForm, netWork, netDisband, netWorkResp,
                   sentForm, sentWork, sentDisband, clusters, replica,
                   wResult, lpc, leaveRet>>
    /\ UNCHANGED <<headGhost, mapGhost, workerGhost>>
    /\ UNCHANGED <<thresholdUsed, waitEnded, wmVars>>

\* The worker answers a failed replica creation with a non-OK response.
WorkerFormClusterRefuse(w) ==
    /\ createErr[w] = "failed"
    /\ createErr' = [createErr EXCEPT ![w] = "replied"]
    /\ netFormResp' = [netFormResp EXCEPT ![w] = "Error"]
    /\ UNCHANGED <<headVars, netForm, netWork, netDisband, netWorkResp,
                   sentForm, sentWork, sentDisband, clusters, replica,
                   wResult, lpc, leaveRet>>
    /\ UNCHANGED <<headGhost, mapGhost, workerGhost>>
    /\ UNCHANGED <<auxVars, wmVars>>

\* The work order on the worker.  Under consensus the replica registered for
\* the request is looked up and the order goes into its Execute, whatever
\* the state of the replica; a running replica executes it: cacheFn stores
\* the result in the worker's wait-map, sendFn sends it to the origin (the
\* leader's does).  Without consensus the worker executes the order itself.
WorkerWorkOrder(w) ==
    /\ w \in netWork
    /\ netWork' = netWork \ {w}
    /\ IF consensusRequired(consensusAlgo) /\ clusters[w] = None
       THEN UNCHANGED <<wResult, netWorkResp, execOnStopped>>
       ELSE IF consensusRequired(consensusAlgo) /\ replica[w] # "running"
       THEN /\ execOnStopped' = [execOnStopped EXCEPT ![w] = TRUE]
            /\ UNCHANGED <<wResult, netWorkResp>>
       ELSE /\ wResult' = [wResult EXCEPT ![w] = TRUE]
            /\ \E c \in ResultCodes, send \in BOOLEAN :
                  netWorkResp' = [netWorkResp EXCEPT
                                    ![w] = IF send THEN c ELSE @]
            /\ UNCHANGED execOnStopped
    /\ UNCHANGED <<headVars, netForm, netDisband, netFormResp, sentForm,
                   sentWork, sentDisband, clusters, replica, createErr, lpc,
                   leaveRet>>
    /\ UNCHANGED <<headGhost, mapGhost, created, leaveCount, regAfterFirst,
                   shutdownCalls>>
    /\ UNCHANGED <<auxVars, wmVars>>

\* A call of leaveCluster returns: the count of the returns, and the entry
\* of the registry the first of them left.
LeaveReturns(w, entry) ==
    /\ leaveCount' = [leaveCount EXCEPT ![w] = @ + 1]
    /\ regAfterFirst' =
          IF leaveCount[w] = 0
          THEN [regAfterFirst EXCEPT
                  ![w] = [entry |-> entry, created |-> created[w]]]
          ELSE regAfterFirst

\* leaveCluster on a DisbandCluster message, up to the wait for the result.
WorkerLeaveCluster(w) ==
    /\ w \in netDisband
    /\ netDisband' = netDisband \ {w}
    /\ IF clusters[w] = None
       THEN /\ leaveRet' = [leaveRet EXCEPT ![w] = "no cluster"]
            /\ LeaveReturns(w, None)
            /\ UNCHANGED lpc
       ELSE /\ lpc' = [lpc EXCEPT ![w].wait = @ + 1]
            /\ leaveRet' = [leaveRet EXCEPT ![w] = None]
            /\ UNCHANGED <<leaveCount, regAfterFirst>>
    /\ UNCHANGED <<headVars, netForm, netWork, netFormResp, netWorkResp,
                   sentForm, sentWork, sentDisband, clusters, replica,
                   createErr, wResult>>
    /\ UNCHANGED <<headGhost, mapGhost, created, shutdownCalls, execOnStopped>>
    /\ UNCHANGED <<auxVars, wmVars>>

\* WaitFor on the worker's wait-map of results returns: the result of
\* the request is in the map, or the timeout of the call has passed.
WaitForReturns_atOnce(hasResult, timedOut) == TRUE

WaitForReturns(hasResult, timedOut) == hasResult \/ timedOut

\* leaveCluster after WaitFor returned: Shutdown is called on the replica.
WorkerLeaveShutdown(w) ==
    /\ lpc[w].wait > 0
    /\ \E timedOut \in BOOLEAN :
         /\ WaitForReturns(wResult[w], timedOut)
         /\ waitEnded' = [waitEnded EXCEPT
                            ![w] = IF wResult[w] THEN "result"
                                   ELSE IF timedOut THEN "timeout"
                                   ELSE "neither"]
    /\ lpc' = [lpc EXCEPT ![w].wait = @ - 1, ![w].shutdown = @ + 1]
    /\ replica' = [replica EXCEPT ![w] = "stopping"]
    /\ shutdownCalls' = [shutdownCalls EXCEPT ![w] = @ + 1]
    /\ UNCHANGED <<headVars, netVars, clusters, createErr, wResult, leaveRet>>
    /\ UNCHANGED <<headGhost, mapGhost, created, leaveCount, regAfterFirst,
                   execOnStopped>>
    /\ UNCHANGED <<thresholdUsed, regAtReply, wmVars>>

\* leaveCluster when Shutdown has returned: the error is returned, or the
\* replica is deleted from the registry.
WorkerLeaveDelete(w) ==
    /\ lpc[w].shutdown > 0
    /\ lpc' = [lpc EXCEPT ![w].shutdown = @ - 1]
    /\ replica' = [replica EXCEPT ![w] = "shutdown"]
    /\ \E shutdownErr \in BOOLEAN :
         IF shutdownErr
         THEN /\ leaveRet' = [leaveRet EXCEPT ![w] = "shutdown error"]
              /\ LeaveReturns(w, clusters[w])
              /\ UNCHANGED clusters
         ELSE /\ leaveRet' = [leaveRet EXCEPT ![w] = "nil"]
              /\ LeaveReturns(w, None)
              /\ clusters' = [clusters EXCEPT ![w] = None]
    /\ UNCHANGED <<headVars, netVars, createErr, wResult>>
    /\ UNCHANGED <<headGhost, mapGhost, created, shutdownCalls, execOnStopped>>
    /\ UNCHANGED <<auxVars, wmVars>>

Next ==
    \/ HeadProcessExecute
    \/ HeadCancel
    \/ HeadRollCall
    \/ HeadFormSend
    \/ HeadFormWait
    \/ HeadDispatch
    \/ HeadGather
    \/ \E w \in Workers : HeadProcessFormClusterResponse(w)
    \/ \E w \in Workers : HeadProcessWorkOrderResponse(w)
    \/ \E w \in Workers : WorkerCreateCluster(w)
    \/ \E w \in Workers : WorkerFormClusterConfirm(w)
    \/ \E w \in Workers : WorkerFormClusterRefuse(w)
    \/ \E w \in Workers : WorkerWorkOrder(w)
    \/ \E w \in Workers : WorkerLeaveCluster(w)
    \/ \E w \in Workers : WorkerLeaveShutdown(w)
    \/ \E w \in Workers : WorkerLeaveDelete(w)

Spec == Init /\ [][Next]_vars

\* ------------------------------------------- the head on an open network
\* The head alone, under any configuration.  The FormClusterResponse
\* messages it handles are whatever the network delivers: from any peer,
\* with any code, any number of times.
InitHead ==
    /\ InitCommon
    /\ consensusAlgo = "none"
    /\ cfg \in Configs

InboundFormClusterResponse(from, c) ==
    /\ consensusResponses' = [consensusResponses EXCEPT ![from] = c]
    /\ UNCHANGED <<hpc, req, ctxCancelled, peers, deferred, executeResponses,
                   formSeen, consensusAlgo, retCode, retResults, retCluster,
                   retErr, response, exitPath, netVars, workerVars>>
    /\ UNCHANGED <<headGhost, mapGhost, workerGhost>>
    /\ UNCHANGED <<auxVars, wmVars>>

NextHead ==
    \/ \E r \in AnyRequests : processExecute(r)
    \/ HeadCancel
    \/ HeadRollCall
    \/ HeadFormSend
    \/ HeadFormWait
    \/ HeadDispatch
    \/ HeadGather
    \/ \E from \in Workers, c \in {"OK", "Error"} :
          InboundFormClusterResponse(from, c)

SpecHead == InitHead /\ [][NextHead]_vars

\* ----------------------------------- the head and stray execution results
\* A WorkOrderResponse reaches the head from the network: from any peer,
\* for any request, with any code.
InboundWorkOrderResponse(from, rid, result) ==
    /\ injected' = injected + 1
    /\ processWorkOrderResponse(from, rid, result)
    /\ UNCHANGED <<hpc, req, ctxCancelled, peers, deferred, consensusResponses,
                   formSeen, consensusAlgo, retCode, retResults, retCluster,
                   retErr, response, exitPath, netVars, workerVars>>
    /\ UNCHANGED <<headGhost, workerGhost>>
    /\ UNCHANGED <<auxVars, wmVars>>

\* The handler of WorkOrderResponse alone, on any sequence of messages.
NextInbound ==
    \E from \in Workers, rid \in RequestIDs, result \in ResultCodes :
       /\ injected < MaxInjected
       /\ InboundWorkOrderResponse(from, rid, result)

SpecInbound == Init /\ [][NextInbound]_vars

\* The execution of a request while responses arrive that no work order of
\* the request asked for.
NextStray ==
    \/ \E r \in PlainRequests : processExecute(r)
    \/ HeadCancel
    \/ HeadRollCall
    \/ HeadFormSend
    \/ HeadFormWait
    \/ HeadDispatch
    \/ HeadGather
    \/ \E from \in Workers, c \in {"OK", "Error"} :
          InboundFormClusterResponse(from, c)
    \/ \E from \in Workers, rid \in RequestIDs, result \in {"OK", "Error"} :
          /\ injected < MaxStray
          /\ InboundWorkOrderResponse(from, rid, result)

SpecStray == Init /\ [][NextStray]_vars

\* ------------------------------------------- the head and the threshold
\* Requests without consensus and with any threshold, scored on the
\* results that arrive.
NextThreshold ==
    \/ \E r \in ThresholdRequests : processExecute(r)
    \/ HeadRollCall
    \/ HeadDispatch
    \/ HeadGather
    \/ \E from \in Workers, result \in {"OK", "Error"} :
          /\ injected < MaxStray
          /\ InboundWorkOrderResponse(from, newRequestID, result)

SpecThreshold == Init /\ [][NextThreshold]_vars

\* ---------------------------------------- the workers on an open network
\* The workers alone.  The messages of a request under consensus reach
\* them as the network delivers them: any of FormCluster, WorkOrder and
\* DisbandCluster, to any worker, in any order, any of them repeated.
InitWorker ==
    /\ InitCommon
    /\ consensusAlgo \in {"raft", "pbft"}
    /\ cfg = DefaultConfig

Delivered ==
    /\ injected < MaxDelivered
    /\ injected' = injected + 1
    /\ UNCHANGED <<headVars, netFormResp, netWorkResp, sentForm, sentWork,
                   sentDisband, workerVars, headGhost, setCount, workerGhost>>
    /\ UNCHANGED <<auxVars, wmVars>>

DeliverFormCluster(w) ==
    /\ w \notin netForm
    /\ netForm' = netForm \cup {w}
    /\ Delivered
    /\ UNCHANGED <<netWork, netDisband>>

DeliverWorkOrder(w) ==
    /\ w \notin netWork
    /\ netWork' = netWork \cup {w}
    /\ Delivered
    /\ UNCHANGED <<netForm, netDisband>>

DeliverDisbandCluster(w) ==
    /\ w \notin netDisband
    /\ netDisband' = netDisband \cup {w}
    /\ Delivered
    /\ UNCHANGED <<netForm, netWork>>

NextWorker ==
    \/ \E w \in Workers : DeliverFormCluster(w)
    \/ \E w \in Workers : DeliverWorkOrder(w)
    \/ \E w \in Workers : DeliverDisbandCluster(w)
    \/ \E w \in Workers : WorkerCreateCluster(w)
    \/ \E w \in Workers : WorkerFormClusterConfirm(w)
    \/ \E w \in Workers : WorkerFormClusterRefuse(w)
    \/ \E w \in Workers : WorkerWorkOrder(w)
    \/ \E w \in Workers : WorkerLeaveCluster(w)
    \/ \E w \in Workers : WorkerLeaveShutdown(w)
    \/ \E w \in Workers : WorkerLeaveDelete(w)

SpecWorker == InitWorker /\ [][NextWorker]_vars

\* The WaitFor of leaveCluster runs under a context with a timeout: a call
\* blocked in it goes on to Shutdown.
FairSpecWorker ==
    /\ InitWorker
    /\ [][NextWorker]_vars
    /\ \A w \in Workers : WF_vars(WorkerLeaveShutdown(w))


\* ------------------------------------------------------ the wait-map
\* One key of a wait-map.  Set stores the value and hands it to the
\* WaitFor calls blocked on the key; a WaitFor call that finds the key
\* set returns the stored value at once, one that does not blocks until
\* a Set hands it a value or its context ends.
otherThanWm == <<headVars, netVars, workerVars, headGhost, mapGhost,
                 workerGhost, auxVars>>

\* Set hands v to a blocked WaitFor call; a call that was handed a value
\* keeps it.
Unblock_lastWrite(st, v) ==
    IF st.pc = "waiting" THEN [st EXCEPT !.pc = "unblocked", !.chan = v,
                                         !.first = v]
    ELSE IF st.pc = "unblocked" THEN [st EXCEPT !.chan = v]
    ELSE st

Unblock(st, v) ==
    IF st.pc = "waiting" THEN [st EXCEPT !.pc = "unblocked", !.chan = v,
                                         !.first = v]
    ELSE st

\* WaitFor begins: the value stored, at once, or the call blocks.
BeginWait(stored, n) ==
    IF stored # None
    THEN [pc |-> "returned", chan |-> None, got |-> stored,
          first |-> stored, epoch |-> n]
    ELSE [pc |-> "waiting", chan |-> None, got |-> None, first |-> None,
          epoch |-> n]

WmWaitFor(i) ==
    /\ wmWaiters[i].pc = "idle"
    /\ wmWaiters' = [wmWaiters EXCEPT ![i] = BeginWait(wmStored, wmSetCount)]
    /\ UNCHANGED <<wmStored, wmSetCount, otherThanWm>>

WmSet(v) ==
    /\ wmSetCount < MaxSets
    /\ wmStored' = v
    /\ wmSetCount' = wmSetCount + 1
    /\ wmWaiters' = [i \in Waiters |-> Unblock(wmWaiters[i], v)]
    /\ UNCHANGED otherThanWm

\* WaitFor returns (v, true) with the value it was handed.
WmWaitReturns(i) ==
    /\ wmWaiters[i].pc = "unblocked"
    /\ wmWaiters' = [wmWaiters EXCEPT ![i].pc = "returned",
                                      ![i].got = wmWaiters[i].chan]
    /\ UNCHANGED <<wmStored, wmSetCount, otherThanWm>>

\* The context of a blocked WaitFor ends: (_, false), the map untouched.
WmWaitCancelled(i) ==
    /\ wmWaiters[i].pc = "waiting"
    /\ wmWaiters' = [wmWaiters EXCEPT ![i].pc = "cancelled"]
    /\ UNCHANGED <<wmStored, wmSetCount, otherThanWm>>

NextWaitMap ==
    \/ \E i \in Waiters : WmWaitFor(i)
    \/ \E v \in WmValues : WmSet(v)
    \/ \E i \in Waiters : WmWaitReturns(i)
    \/ \E i \in Waiters : WmWaitCancelled(i)

SpecWaitMap == Init /\ [][NextWaitMap]_vars


\* ------------------------------------------------------------------ claims
\* formCluster has returned for the request.
FormEnded == \A w \in Workers : formSeen[w] # "pending"

\* Every selected peer had answered FormCluster with OK when the wait ended.
Formed ==
    /\ consensusRequired(consensusAlgo)
    /\ FormEnded
    /\ \A p \in peers : formSeen[p] = "OK"

\* Some selected peer had answered with a non-OK code, or had not answered.
FormFailed ==
    /\ consensusRequired(consensusAlgo)
    /\ FormEnded
    /\ \E p \in peers : formSeen[p] # "OK"

\* The selected peers whose WorkOrderResponse is in the head's wait-map.
Arrived == {p \in peers : ResponsesOf(executeResponses, requestID)[p] # None}

\* C1: for a raft or pbft request, when a selected peer answered FormCluster
\* with a non-OK code or did not answer in time, execute has returned
\* codes.Error and no WorkOrder was sent to any peer.
C1_FormFailureIsError ==
    FormFailed =>
        /\ hpc = "done"
        /\ retCode = "Error"
        /\ sentWork = {}
        /\ netWork = {}

\* One selected peer refused and another had not answered when execute returned.
C1_Witness ==
    /\ FormFailed
    /\ exitPath = "L120"
    /\ \E p \in peers : formSeen[p] = "Error"
    /\ \E p \in peers : formSeen[p] = None

\* C2: for a raft or pbft request whose cluster formed, DisbandCluster has
\* been sent to the selected peers when execute has returned, whichever
\* return of the later phases it left through and also when the caller's
\* context is cancelled.
C2_DisbandOnEveryExit ==
    (hpc = "done" /\ Formed) =>
        /\ exitPath \in {"L144", "L154", "L172", "L191"}
        /\ sentDisband = peers

\* The cluster formed, the caller cancelled, the WorkOrder send failed, and
\* the disband went out all the same.
C2_Witness ==
    /\ hpc = "done"
    /\ Formed
    /\ ctxCancelled
    /\ exitPath = "L154"
    /\ sentDisband = peers
    /\ netDisband # {}

\* C3: when cluster formation failed for the request because a selected peer
\* refused, DisbandCluster has been sent to every selected peer when execute
\* has returned (a peer that did create its replica is told to drop it).
C3_DisbandAfterFailedFormation ==
    ( /\ hpc = "done"
      /\ FormFailed
      /\ \E p \in peers : formSeen[p] = "Error"
      /\ \E p \in peers : clusters[p] # None )
    => sentDisband = peers

\* C4: once leaveCluster has returned on a worker, with or without an error
\* of Shutdown, the worker's cluster registry has no entry for the request.
C4_NoEntryAfterLeave ==
    \A w \in Workers : leaveRet[w] # None => clusters[w] = None

\* C5: raft or no consensus, at least one result and a response ratio of at
\* least the threshold: the code is OK if a responding peer returned OK and
\* Error if none did (stated for more than one selected peer; the single
\* peer is C6).
C5_CodeFromPeerCodes ==
    ( /\ exitPath = "L191"
      /\ Cardinality(peers) > 1
      /\ DOMAIN retResults # {}
      /\ Cardinality(DOMAIN retResults) * 100
            >= determineThreshold(req.threshold) * Cardinality(peers) )
    => retCode = IF \E p \in DOMAIN retResults : retResults[p] = "OK"
                 THEN "OK" ELSE "Error"

\* C6: raft or no consensus with exactly one selected peer whose result has
\* code X: the code returned is X.
C6_SinglePeerCode ==
    ( /\ exitPath = "L191"
      /\ Cardinality(peers) = 1
      /\ DOMAIN retResults # {} )
    => \A p \in DOMAIN retResults : retCode = retResults[p]

\* C7: a PBFT request for which a result is returned: one result is
\* returned, and the code returned is the code of that result.
C7_PBFTCodeIsResultCode ==
    ( /\ hpc = "done"
      /\ consensusAlgo = "pbft"
      /\ DOMAIN retResults # {} )
    => /\ exitPath = "L172"
       /\ Cardinality(DOMAIN retResults) = 1
       /\ \A p \in DOMAIN retResults : retCode = retResults[p]

\* A PBFT request returned the agreed result, whose code is not OK.
C7_Witness ==
    /\ exitPath = "L172"
    /\ consensusAlgo = "pbft"
    /\ \E p \in DOMAIN retResults : retResults[p] = "Error"
    /\ retCode = "Error"

\* C8: raft or no consensus, the work order dispatched: when the wait for
\* the results ends and no WorkOrderResponse of a selected peer has arrived,
\* execute returns NoContent, an empty ResultMap and the cluster's peers.
C8_NoResultsIsNoContent ==
    [][ ( /\ hpc = "gather"
          /\ hpc' = "done"
          /\ consensusAlgo # "pbft"
          /\ Arrived = {} )
        => ( /\ retCode' = "NoContent"
             /\ DOMAIN retResults' = {}
             /\ retCluster' = peers
             /\ sentWork = peers ) ]_vars

\* A raft request whose work order went out returned without any response.
C8_Witness ==
    /\ exitPath = "L191"
    /\ consensusAlgo = "raft"
    /\ sentWork # {}
    /\ retCode = "NoContent"
    /\ DOMAIN retResults = {}
    /\ retCluster = peers

\* C9: raft or no consensus, more than one selected peer: when the wait
\* ends with at least one result but a ratio of results to peers strictly
\* below the threshold, execute returns PartialContent and every result
\* that arrived.
C9_BelowThresholdIsPartial ==
    [][ ( /\ hpc = "gather"
          /\ hpc' = "done"
          /\ consensusAlgo # "pbft"
          /\ Cardinality(peers) > 1
          /\ Arrived # {}
          /\ Cardinality(Arrived) * 100
                < determineThreshold(req.threshold) * Cardinality(peers) )
        => ( /\ retCode' = "PartialContent"
             /\ DOMAIN retResults' = Arrived
             /\ \A p \in Arrived : retResults'[p] = ResponsesOf(executeResponses, requestID)[p] ) ]_vars

\* Fewer peers than the threshold asks for responded, and their results
\* came back with PartialContent.
C9_Witness ==
    /\ exitPath = "L191"
    /\ Cardinality(peers) > 1
    /\ Cardinality(DOMAIN retResults) = 1
    /\ Cardinality(DOMAIN retResults) * 100
          < determineThreshold(req.threshold) * Cardinality(peers)
    /\ retCode = "PartialContent"

\* C10: a PBFT request for which no WorkOrderResponse arrived before the
\* execution timeout does not return code OK.
C10_PBFTTimeoutIsNotOK ==
    ( /\ exitPath = "L172"
      /\ consensusAlgo = "pbft"
      /\ DOMAIN retResults = {} )
    => retCode # "OK"

\* C11: on every return path of execute, every key of the ResultMap returned
\* is a peer of the Cluster returned, whatever WorkOrderResponse messages
\* reached the head: of peers not selected, of other requests.
C11_ResultsFromClusterPeers ==
    hpc = "done" =>
       /\ DOMAIN retResults \subseteq retCluster
       /\ req.valid => DOMAIN response.results \subseteq response.cluster

\* execute returned after the gathering while the wait-map held a result
\* under the key of the request and of a peer the roll call did not select.
C11_Witness ==
    /\ hpc = "done"
    /\ exitPath \in {"L172", "L191"}
    /\ \E p \in Workers \ retCluster :
          executeResponses[executionResultKey(requestID, p)] # None

\* C12: when node_count is set and fewer peers than that answered the roll
\* call before its deadline, execute returns Timeout with no results and an
\* empty cluster, and no FormCluster, WorkOrder or DisbandCluster is sent.
C12_ShortRollCallIsTimeout ==
    ( /\ rollCallEnded = "deadline"
      /\ req.nodeCount >= 1
      /\ Cardinality(responders) < req.nodeCount )
    => /\ hpc = "done"
       /\ retCode = "Timeout"
       /\ retResults = EmptyMap
       /\ retCluster = {}
       /\ response.code = "Timeout"
       /\ response.results = EmptyMap
       /\ response.cluster = {}
       /\ sentForm = {} /\ sentWork = {} /\ sentDisband = {}
       /\ netForm = {} /\ netWork = {} /\ netDisband = {}

\* The roll call of a request with node_count set ended at its deadline with
\* some peers, fewer than node_count, having answered.
C12_Witness ==
    /\ rollCallEnded = "deadline"
    /\ req.nodeCount >= 1
    /\ responders # {}
    /\ Cardinality(responders) < req.nodeCount
    /\ hpc = "done"

\* C13: a request that fails validation is answered at once with code
\* Invalid; no request ID is minted, no roll call is published, and no
\* FormCluster or WorkOrder is sent.
C13_InvalidRequestGoesNowhere ==
    (hpc # "idle" /\ ~req.valid) =>
       /\ requestID = None
       /\ ~rollCallSent
       /\ sentForm = {} /\ sentWork = {}
       /\ hpc = "done"
       /\ response.code = "Invalid"

\* An invalid request was handled.
C13_Witness ==
    /\ hpc = "done"
    /\ ~req.valid
    /\ response.code = "Invalid"

C15_UnknownConsensusNotExecuted ==
    ( /\ hpc # "idle"
      /\ req.valid
      /\ parseConsensusAlgorithm(req.consensus) = "invalid" )
    => (sentForm = {} /\ sentWork = {})

\* C15, as the code has it: execute does not return the error of the parse;
\* it goes on with the default consensus of the head's configuration.
C15_UnknownConsensusFallsBack ==
    ( /\ hpc # "idle"
      /\ req.valid
      /\ parseConsensusAlgorithm(req.consensus) = "invalid" )
    => /\ consensusAlgo = cfg.DefaultConsensus
       /\ rollCallSent

\* A request with an unknown consensus string ran to the end of execute on a
\* raft cluster, raft being the configured default.
C15_Witness ==
    /\ hpc = "done"
    /\ req.valid
    /\ req.consensus = "bogus"
    /\ cfg.DefaultConsensus = "raft"
    /\ exitPath = "L191"
    /\ sentForm # {}

\* C20: whatever WorkOrderResponse messages arrive, repeated ones of the
\* same peer among them, no key of the head's wait-map is written twice.
C20_KeyWrittenOnce ==
    \A k \in Keys : setCount[k] <= 1

\* C16: a worker creates at most one replica for a request: a FormCluster
\* for a request it has a replica of creates no second one.
C16_OneReplicaPerRequest ==
    \A w \in Workers : created[w] <= 1

\* C17: with no replica created in between, a worker that handled
\* DisbandCluster twice has the registry the first handling left.
C17_DisbandTwiceAsOnce ==
    \A w \in Workers :
       (leaveCount[w] >= 2 /\ created[w] = regAfterFirst[w].created)
          => clusters[w] = regAfterFirst[w].entry

\* C18: Execute is never invoked on a replica whose Shutdown has started.
C18_NoExecuteAfterShutdown ==
    \A w \in Workers : ~execOnStopped[w]

\* C19: a raft cluster formed, execute returned, and every peer of the
\* cluster has handled its DisbandCluster to the end: no peer has an entry
\* for the request in its registry.
C19_RegistryEmptyAfterDisband ==
    ( /\ hpc = "done"
      /\ consensusAlgo = "raft"
      /\ Formed
      /\ sentDisband = peers
      /\ \A p \in peers : p \notin netDisband /\ lpc[p] = NoLeave
                            /\ leaveCount[p] >= 1 )
    => \A p \in peers : clusters[p] = None

\* C21: the threshold the results are scored with is the threshold of the
\* request when that is above 0 and at most 1 (100 percent), 1 included,
\* and the default threshold for every other value: 0, negative, above 1.
C21_ThresholdOrDefault ==
    exitPath = "L191" =>
       /\ (req.threshold > 0 /\ req.threshold <= 100)
             => thresholdUsed = req.threshold
       /\ (req.threshold <= 0 \/ req.threshold > 100)
             => thresholdUsed = defaultExecutionThreshold
       /\ req.threshold = 100 => thresholdUsed = 100

\* A request with threshold 1 was scored with it: one of two peers
\* answered, which the default threshold would have let pass as OK.
C21_Witness ==
    /\ exitPath = "L191"
    /\ req.threshold = 100
    /\ thresholdUsed = 100
    /\ Cardinality(peers) = 2
    /\ Cardinality(DOMAIN retResults) = 1
    /\ retCode = "PartialContent"
\* C22: a WaitFor call on a key that returns true returns the value of
\* the first Set of the key it could see: the first Set after it blocked,
\* or, for a call that began after one or several Sets, the value stored
\* when it began.  The WaitFor calls blocked on the key at the same time
\* return the same value.
C22_WaitForFirstVisibleSet ==
    /\ \A i \in Waiters :
          wmWaiters[i].pc = "returned" =>
             /\ wmWaiters[i].got # None
             /\ wmWaiters[i].got = wmWaiters[i].first
    /\ \A i, j \in Waiters :
          (/\ wmWaiters[i].pc = "returned"
           /\ wmWaiters[j].pc = "returned"
           /\ wmWaiters[i].epoch = wmWaiters[j].epoch)
          => wmWaiters[i].got = wmWaiters[j].got

\* Two calls blocked before the first of two Sets and a call begun after
\* the second: the first two return the first value, the third the second.
C22_Witness ==
    /\ wmSetCount = 2 /\ wmStored = "b"
    /\ wmWaiters[1] = [pc |-> "returned", chan |-> "a", got |-> "a",
                       first |-> "a", epoch |-> 0]
    /\ wmWaiters[2] = wmWaiters[1]
    /\ wmWaiters[3].pc = "returned" /\ wmWaiters[3].epoch = 2
    /\ wmWaiters[3].got = "b"

\* C23: the phases of execute follow one another.  FormCluster is sent
\* only once the roll call has selected the peers, and to them; the
\* WorkOrder is sent only once the formation has ended with every peer's
\* OK (when the request needs consensus); DisbandCluster is sent only on
\* the return of execute, after the dispatch and the gathering.
C23_PhasesInOrder ==
    /\ hpc = "rollcall" => sentForm = {} /\ sentWork = {}
    /\ hpc \in {"form", "formwait"} => sentWork = {}
    /\ sentForm # {} =>
          /\ rollCallEnded = "selected"
          /\ sentForm = peers
    /\ sentWork # {} =>
          /\ rollCallEnded = "selected"
          /\ sentWork = peers
          /\ consensusRequired(consensusAlgo) => Formed /\ sentForm = peers
    /\ (sentDisband # {} \/ netDisband # {}) =>
          /\ hpc = "done"
          /\ deferred
          /\ Formed
          /\ sentDisband = peers

\* A request under raft that went through the four phases with two peers.
C23_Witness ==
    /\ hpc = "done" /\ exitPath = "L191" /\ consensusAlgo = "raft"
    /\ Cardinality(peers) = 2
    /\ sentForm = peers /\ sentWork = peers /\ sentDisband = peers
    /\ netDisband = peers

\* C24: a worker sends FormClusterResponse{OK} only after it registered
\* the replica: when an OK reply of a worker is on its way to the head or
\* in the head's wait-map, the worker had created a replica and its
\* registry held a replica for the request when it sent the reply.
C24_ReplyAfterRegistration ==
    \A w \in Workers :
       /\ regAtReply[w] # "no"
       /\ (netFormResp[w] = "OK" \/ consensusResponses[w] = "OK") =>
             /\ regAtReply[w] = "yes"
             /\ created[w] >= 1

\* The head has the OK of both workers, each sent with the replica
\* registered.
C24_Witness ==
    /\ peers = Workers
    /\ \A w \in Workers :
          /\ consensusResponses[w] = "OK"
          /\ regAtReply[w] = "yes"
          /\ clusters[w] # None

\* C27: when the creation of the replica fails on a worker, the worker
\* registers no handle for the request and sends no OK: the reply it
\* sends, and the one the head gets from it, is non-OK.
C27_FailedCreationIsRefused ==
    \A w \in Workers :
       createErr[w] \in {"failed", "replied"} =>
          /\ clusters[w] = None
          /\ created[w] = 0
          /\ regAtReply[w] = None
          /\ netFormResp[w] \notin {"OK"}
          /\ consensusResponses[w] \notin {"OK"}
          /\ createErr[w] = "replied" =>
                \/ netFormResp[w] = "Error"
                \/ consensusResponses[w] = "Error"

\* The creation failed on a selected worker, the head got its non-OK
\* reply and ended the request with an error.
C27_Witness ==
    \E w \in peers :
       /\ createErr[w] = "replied"
       /\ consensusResponses[w] = "Error"
       /\ clusters[w] = None
       /\ hpc = "done" /\ exitPath = "L120"

\* C25: leaveCluster removes the handle from the registry when it looks
\* it up: while a call is inside Shutdown of the replica, the registry of
\* the worker has no entry for the request.
C25_NoEntryAtShutdown ==
    \A w \in Workers : lpc[w].shutdown > 0 => clusters[w] = None

\* C26: leaveCluster calls Shutdown only after the result of the request
\* was in the worker's wait-map or the timeout of the wait had passed;
\* and a call that waits goes on to call Shutdown, also when no result is
\* ever cached.
C26_ShutdownAfterResultOrTimeout ==
    /\ [](\A w \in Workers :
            /\ waitEnded[w] # "neither"
            /\ shutdownCalls[w] > 0 => waitEnded[w] \in {"result", "timeout"})
    /\ \A w \in Workers : \A n \in 0..(MaxDelivered + 1) :
          (lpc[w].wait > 0 /\ shutdownCalls[w] = n) ~> (shutdownCalls[w] > n)

\* Shutdown was called on a worker that never cached a result, after the
\* timeout of the wait.
C26_Witness ==
    \E w \in Workers :
       /\ ~wResult[w]
       /\ waitEnded[w] = "timeout"
       /\ shutdownCalls[w] = 1
       /\ lpc[w].shutdown = 1

\* C28: of the calls of leaveCluster for a request that run at the same
\* time on a worker, at most one calls Shutdown on the replica: as long
\* as no call has returned and one replica was created, Shutdown was
\* called at most once.
C28_ShutdownAtMostOnce ==
    \A w \in Workers :
       (created[w] <= 1 /\ leaveCount[w] = 0) => shutdownCalls[w] <= 1

====
